---- MODULE Spec2Model ----
(***************************************************************************)
(* Chordagon: the MIDI event pipeline of src/main.cpp.                     *)
(*                                                                         *)
(* One callback per open MIDI port enqueues messages into the shared       *)
(* midiMessageQueue; the render loop drains the queue in updateNoteAngles, *)
(* keeps the std::map noteAngles, and draw copies the angles into the      *)
(* uniform array and draws size*(size-1) element indices as lines; the     *)
(* line geometry shader of src/shaders.h colors each line by its interval. *)
(* main registers the MTS client before the loop and deregisters it after. *)
(*                                                                         *)
(* Representation of the reals: a frequency is held in cents above MIDI    *)
(* note 0 of 12-TET (so 440 Hz is 6900 and 880 Hz is 8100), and an angle   *)
(* in milliradians.                                                        *)
(***************************************************************************)
EXTENDS Integers, Sequences, FiniteSets, TLC

VARIABLES
    noteAngles,     \* main's std::map<char, float> noteAngles
    m,              \* updateNoteAngles' local: the message last dequeued
    tuning,         \* the tuning table the MTS client currently sees
    slots,          \* the queue's ring of element slots
    live,           \* live[i]: slot i holds a constructed, not yet moved-out element
    front,          \* the queue's front index (written by the consumer)
    tail,           \* the queue's tail index (written by the producers)
    ppc,            \* ppc[p]: where port p's callback is inside try_enqueue
    ptail,          \* ptail[p]: the tail index port p's try_enqueue has read
    pmsg,           \* pmsg[p]: the message port p's callback was called with
    nsent,          \* nsent[p]: how many messages port p has received so far
    cpc,            \* where main is: "setup", "update", "swap", "exit", "done";
                    \* "crashed", "aborted"
    client,         \* the MTS client: "none", "registered", "deregistered"
    resolverCalls,  \* history: how many times MTS_NoteToFrequency was called
    color,          \* the colors the line shader has emitted for the frame
    noteAnglesArr,  \* draw's local array, as passed to glUniform1fv
    elemCount,      \* the count draw passed to glDrawElements
    pointCount,     \* the count draw passed to glDrawArrays(GL_POINTS, ...)
    before,         \* history: noteAngles as it was before m was processed
    accepted,       \* history: ids of the messages whose try_enqueue returned true
    dropped,        \* history: ids of the messages whose try_enqueue returned false
    delivered       \* history: ids of the messages try_dequeue returned, in order

vars == <<noteAngles, m, tuning, slots, live, front, tail, ppc, ptail, pmsg, nsent,
          cpc, client, resolverCalls, color, noteAnglesArr, elemCount, pointCount,
          before, accepted, dropped, delivered>>

----------------------------------------------------------------------------
(* Program constants *)

maxNotes == 16

TWOPI == 6283

NOTE_OFF == 128

NOTE_ON == 144

CONTROL_CHANGE == 176

SYSTEM_EXCLUSIVE == 240

(* Bounds of the model *)

NumPorts == 2

QueueSlots == 3

MaxEvents == 4

MaxNoteEvents == 1

MaxFrameEvents == 2

MaxMainEvents == 3

MaxTurns == 1

----------------------------------------------------------------------------
(* MIDI messages *)

\* A libremidi::message: its bytes, and (history only) the port that received
\* it and its number among that port's messages.
Message(status, d1, d2, p, k) == [bytes |-> <<status, d1, d2>>, port |-> p, seq |-> k]

\* A message without bytes: a default-constructed libremidi::message, and what
\* a moved-from element of the queue holds.
EmptyMessage == [bytes |-> <<>>, port |-> 0, seq |-> 0]

MsgId(msg) == <<msg.port, msg.seq>>

\* libremidi::message::get_message_type: the status byte, without its channel
\* nibble for a channel message.
get_message_type(msg) ==
    IF Len(msg.bytes) = 0 THEN 0
    ELSE IF msg.bytes[1] >= SYSTEM_EXCLUSIVE THEN msg.bytes[1]
    ELSE msg.bytes[1] - (msg.bytes[1] % 16)

\* unsigned char to char (the map's key type, and the type of the locals
\* noteNumber and velocity).
ToChar(b) == IF b < 128 THEN b ELSE b - 256

----------------------------------------------------------------------------
(* Tuning *)

Tunings == {"12tet", "24tet"}

\* MTS_NoteToFrequency(c, note, 0): the frequency of a note under the tuning
\* the client sees; in cents above MIDI note 0 of 12-TET.
MTS_NoteToFrequency(tun, note, channel) ==
    IF tun = "12tet" THEN 100 * note ELSE 3450 + 50 * note

\* NoteAngle brought into [0, TWOPI), as fmod and a correction would.
NoteAngleReduced(freq) == ((TWOPI * (freq - 6900)) \div 1200) % TWOPI

\* TWOPI * log2(freq / 440.0): 440 Hz is 6900 cents, an octave is 1200 cents.
\* The double product is stored in a float; here it is cut to a whole
\* milliradian.
NoteAngle(freq) == (TWOPI * (freq - 6900)) \div 1200

----------------------------------------------------------------------------
(* The active note set: std::map<char, float> *)

Size(angles) == Cardinality(DOMAIN angles)

\* std::map::erase(key)
Erase(angles, key) == [k \in (DOMAIN angles) \ {key} |-> angles[k]]

\* std::map::operator[](key) = value
Assign(angles, key, value) ==
    [k \in (DOMAIN angles) \cup {key} |-> IF k = key THEN value ELSE angles[k]]

\* OnNoteOn without the test for velocity 0: every NOTE_ON switches a note on.
OnNoteOnAnyVelocity(angles, msg, tun) ==
    LET noteNumber == ToChar(msg.bytes[2])
    IN  IF Size(angles) < maxNotes
        THEN Assign(angles, noteNumber,
                    NoteAngle(MTS_NoteToFrequency(tun, noteNumber, 0)))
        ELSE angles

\* OnNoteOn with the capacity test off by one (<= for <).
OnNoteOnOffByOne(angles, msg, tun) ==
    LET noteNumber == ToChar(msg.bytes[2])
        velocity == ToChar(msg.bytes[3])
    IN  IF velocity = 0
        THEN Erase(angles, noteNumber)
        ELSE IF Size(angles) <= maxNotes
        THEN Assign(angles, noteNumber,
                    NoteAngle(MTS_NoteToFrequency(tun, noteNumber, 0)))
        ELSE angles

\* OnNoteOn with the capacity test applied to new keys only: a note that is
\* already in the map is resolved and stored again even when the map is full.
OnNoteOnRefreshWhenFull(angles, msg, tun) ==
    LET noteNumber == ToChar(msg.bytes[2])
        velocity == ToChar(msg.bytes[3])
    IN  IF velocity = 0
        THEN Erase(angles, noteNumber)
        ELSE IF Size(angles) < maxNotes \/ noteNumber \in DOMAIN angles
        THEN Assign(angles, noteNumber,
                    NoteAngle(MTS_NoteToFrequency(tun, noteNumber, 0)))
        ELSE angles

\* OnNoteOn that looks every active note up again when a note goes on.
OnNoteOnRetuneAll(angles, msg, tun) ==
    LET noteNumber == ToChar(msg.bytes[2])
        velocity == ToChar(msg.bytes[3])
    IN  IF velocity = 0
        THEN Erase(angles, noteNumber)
        ELSE IF Size(angles) < maxNotes
        THEN [k \in (DOMAIN angles) \cup {noteNumber} |->
                NoteAngle(MTS_NoteToFrequency(tun, k, 0))]
        ELSE angles

\* OnNoteOn that makes room in a full map by dropping its lowest note.
OnNoteOnEvictWhenFull(angles, msg, tun) ==
    LET noteNumber == ToChar(msg.bytes[2])
        velocity == ToChar(msg.bytes[3])
        lowest == CHOOSE k \in DOMAIN angles : \A j \in DOMAIN angles : k <= j
        room == IF Size(angles) < maxNotes THEN angles ELSE Erase(angles, lowest)
    IN  IF velocity = 0
        THEN Erase(angles, noteNumber)
        ELSE Assign(room, noteNumber,
                    NoteAngle(MTS_NoteToFrequency(tun, noteNumber, 0)))

\* OnNoteOn with std::map::insert for operator[]: an entry that is there
\* already is kept as it is.
OnNoteOnInsertOnly(angles, msg, tun) ==
    LET noteNumber == ToChar(msg.bytes[2])
        velocity == ToChar(msg.bytes[3])
    IN  IF velocity = 0
        THEN Erase(angles, noteNumber)
        ELSE IF Size(angles) < maxNotes /\ noteNumber \notin DOMAIN angles
        THEN Assign(angles, noteNumber,
                    NoteAngle(MTS_NoteToFrequency(tun, noteNumber, 0)))
        ELSE angles

\* The NOTE_ON branch of the loop body.
OnNoteOn(angles, msg, tun) ==
    LET noteNumber == ToChar(msg.bytes[2])
        velocity == ToChar(msg.bytes[3])
    IN  IF velocity = 0
        THEN Erase(angles, noteNumber)
        ELSE IF Size(angles) < maxNotes
        THEN Assign(angles, noteNumber,
                    NoteAngle(MTS_NoteToFrequency(tun, noteNumber, 0)))
        ELSE angles

\* OnNoteOff erasing at lower_bound(key): the next greater key when the key
\* itself is not in the map.
OnNoteOffLowerBound(angles, msg) ==
    LET above == { k \in DOMAIN angles : k >= ToChar(msg.bytes[2]) }
    IN  IF above = {} THEN angles
        ELSE Erase(angles, CHOOSE k \in above : \A j \in above : k <= j)

\* The NOTE_OFF branch of the loop body.
OnNoteOff(angles, msg) == Erase(angles, ToChar(msg.bytes[2]))

\* ResolverCallCount with the frequency looked up before the test for room.
ResolverCallCountBeforeTest(angles, msg) ==
    IF get_message_type(msg) = NOTE_ON
    THEN IF ToChar(msg.bytes[3]) = 0 THEN 0 ELSE 1
    ELSE 0

\* How many times the loop body calls MTS_NoteToFrequency for one message.
ResolverCallCount(angles, msg) ==
    IF get_message_type(msg) = NOTE_ON
    THEN IF ToChar(msg.bytes[3]) = 0 THEN 0
         ELSE IF Size(angles) < maxNotes THEN 1 ELSE 0
    ELSE 0

\* ProcessMessage with the second if as the else of the first: whatever is
\* not a NOTE_ON is taken for a NOTE_OFF.
ProcessMessageElseOff(angles, msg, tun) ==
    IF get_message_type(msg) = NOTE_ON
    THEN OnNoteOn(angles, msg, tun)
    ELSE OnNoteOff(angles, msg)

\* The body of updateNoteAngles' while loop for one dequeued message: the two
\* ifs run one after the other.
ProcessMessage(angles, msg, tun) ==
    LET a1 == IF get_message_type(msg) = NOTE_ON
              THEN OnNoteOn(angles, msg, tun) ELSE angles
    IN  IF get_message_type(msg) = NOTE_OFF THEN OnNoteOff(a1, msg) ELSE a1

----------------------------------------------------------------------------
(* The queue: moodycamel::ReaderWriterQueue<libremidi::message, 4096>, built
   with one block.  A block is a ring of slots with a front index, which
   only try_dequeue writes, and a tail index, which only try_enqueue writes;
   one slot always stays free.  The queue is made for ONE producer thread:
   try_enqueue reads the tail, constructs the element in that slot and then
   publishes tail + 1, with no atomic read-modify-write of the tail. *)

Slots == 0 .. (QueueSlots - 1)

NextSlot(i) == (i + 1) % QueueSlots

\* QueueFull off by one slot: "full" one element early, and not when full.
QueueFullEarly(t, f) == NextSlot(NextSlot(t)) = f

\* try_enqueue's test for "no room in the block": it then returns false, as a
\* queue built with one block has no next block and try_enqueue never allocates.
QueueFull(t, f) == NextSlot(t) = f

\* try_dequeue's test for "nothing to dequeue".
QueueEmpty(t, f) == f = t

\* Indices of the slots from front up to, not including, tail.
RECURSIVE Buffered(_, _)
Buffered(f, t) == IF f = t THEN <<>> ELSE <<f>> \o Buffered(NextSlot(f), t)

Ports == 1 .. NumPorts

\* What port p receives in the full pipeline: a player on channel p - 1 who
\* presses and releases one key, again and again (port 1 plays note 60, port 2
\* note 64, ...).  k is the number of messages the port has received before.
\* The odd ports' controllers release a key with a NOTE_ON of velocity 0.
PipelineBytes(p, k) ==
    IF k % 2 = 0
    THEN { <<NOTE_ON + (p - 1), 56 + 4 * p, 110 - 10 * p>> }
    ELSE IF p % 2 = 1
    THEN { <<NOTE_ON + (p - 1), 56 + 4 * p, 0>> }
    ELSE { <<NOTE_OFF + (p - 1), 56 + 4 * p, 0>> }

\* What the port receives in the note-set runs: any of these notes, as a
\* NOTE_ON with or without velocity or as a NOTE_OFF, or a control change.
ProbeNotes == {0, 2, 3, 16, 60, 127}

NotesBytes ==
    { <<NOTE_ON, n, 100>> : n \in ProbeNotes } \cup
    { <<NOTE_ON + 5, n, 1>> : n \in ProbeNotes } \cup
    { <<NOTE_ON, n, 0>> : n \in ProbeNotes } \cup
    { <<NOTE_OFF, n, 64>> : n \in ProbeNotes } \cup
    { <<CONTROL_CHANGE, 7, 100>>, <<CONTROL_CHANGE + 1, 2, 0>> }

\* How many messages the ports have received in all.
RECURSIVE SentUpTo(_)
SentUpTo(p) == IF p = 0 THEN 0 ELSE nsent[p] + SentUpTo(p - 1)

----------------------------------------------------------------------------
(* draw: the uniform array and the element count *)

\* The keys of the map in the order std::map iterates: ascending char.
RECURSIVE SortedKeys(_)
SortedKeys(S) ==
    IF S = {} THEN <<>>
    ELSE LET least == CHOOSE k \in S : \A j \in S : k <= j
         IN  <<least>> \o SortedKeys(S \ {least})

\* FillAnglesArr with the note number as the index (a sparse array).
FillAnglesArrByNote(angles) ==
    [i \in 1 .. maxNotes |-> IF (i - 1) \in DOMAIN angles THEN angles[i - 1] ELSE 0]

\* float noteAnglesArr[maxNotes] = {0.0f}, then the map's values copied to the
\* front in iteration order.
FillAnglesArr(angles) ==
    LET keys == SortedKeys(DOMAIN angles)
    IN  [i \in 1 .. maxNotes |-> IF i <= Len(keys) THEN angles[keys[i]] ELSE 0]

\* size_t: 64 bits, held as 8 bytes, least significant first.
SizeT(n) == [i \in 1 .. 8 |-> IF i <= 4 THEN (n \div (256 ^ (i - 1))) % 256 ELSE 0]

\* a - b in size_t (wraps below zero): byte-wise with borrow.
RECURSIVE SubBytes(_, _, _, _)
SubBytes(a, b, i, borrow) ==
    IF i > 8 THEN <<>>
    ELSE LET d == a[i] - b[i] - borrow
         IN  <<d % 256>> \o SubBytes(a, b, i + 1, IF d < 0 THEN 1 ELSE 0)

SizeSub(a, b) == SubBytes(a, b, 1, 0)

\* Byte i (from 1) of the full product a * b plus the carry into it; bytes
\* past the eighth are dropped (the product wraps).
RECURSIVE ColumnSum(_, _, _, _)
ColumnSum(a, b, i, j) ==
    IF j > i THEN 0 ELSE a[j] * b[i - j + 1] + ColumnSum(a, b, i, j + 1)

RECURSIVE MulBytes(_, _, _, _)
MulBytes(a, b, i, carry) ==
    IF i > 8 THEN <<>>
    ELSE LET c == ColumnSum(a, b, i, 1) + carry
         IN  <<c % 256>> \o MulBytes(a, b, i + 1, c \div 256)

SizeMul(a, b) == MulBytes(a, b, 1, 0)

\* size_t to GLsizei (int): the low 32 bits, two's complement.
ToGLsizei(a) ==
    a[1] + 256 * a[2] + 65536 * a[3]
      + 16777216 * (IF a[4] >= 128 THEN a[4] - 256 ELSE a[4])

\* ElementCount as the number of lines, not of elements: size * (size - 1) / 2.
ElementCountLines(angles) == (Size(angles) * (Size(angles) - 1)) \div 2

\* noteAngles.size() * (noteAngles.size() - 1), as passed to glDrawElements.
ElementCount(angles) ==
    ToGLsizei(SizeMul(SizeT(Size(angles)), SizeSub(SizeT(Size(angles)), SizeT(1))))

\* static unsigned int indices[]: the element buffer bound to VAO[0].
indices ==
    << 0, 1, 0, 2, 1, 2, 0, 3, 1, 3, 2, 3, 0, 4, 1, 4,
       2, 4, 3, 4, 0, 5, 1, 5, 2, 5, 3, 5, 4, 5, 0, 6,
       1, 6, 2, 6, 3, 6, 4, 6, 5, 6, 0, 7, 1, 7, 2, 7,
       3, 7, 4, 7, 5, 7, 6, 7, 0, 8, 1, 8, 2, 8, 3, 8,
       4, 8, 5, 8, 6, 8, 7, 8, 0, 9, 1, 9, 2, 9, 3, 9,
       4, 9, 5, 9, 6, 9, 7, 9, 8, 9, 0, 10, 1, 10, 2, 10,
       3, 10, 4, 10, 5, 10, 6, 10, 7, 10, 8, 10, 9, 10, 0, 11,
       1, 11, 2, 11, 3, 11, 4, 11, 5, 11, 6, 11, 7, 11, 8, 11,
       9, 11, 10, 11, 0, 12, 1, 12, 2, 12, 3, 12, 4, 12, 5, 12,
       6, 12, 7, 12, 8, 12, 9, 12, 10, 12, 11, 12, 0, 13, 1, 13,
       2, 13, 3, 13, 4, 13, 5, 13, 6, 13, 7, 13, 8, 13, 9, 13,
       10, 13, 11, 13, 12, 13, 0, 14, 1, 14, 2, 14, 3, 14, 4, 14,
       5, 14, 6, 14, 7, 14, 8, 14, 9, 14, 10, 14, 11, 14, 12, 14,
       13, 14, 0, 15, 1, 15, 2, 15, 3, 15, 4, 15, 5, 15, 6, 15,
       7, 15, 8, 15, 9, 15, 10, 15, 11, 15, 12, 15, 13, 15, 14, 15 >>

\* Element i (from 0) of the element buffer; -1 stands for a read past its end.
ElementAt(i) == IF i < Len(indices) THEN indices[i + 1] ELSE -1

\* glDrawElements(GL_LINES, count, GL_UNSIGNED_INT, 0): one line for each whole
\* pair of elements among the first count; a negative count draws nothing.
LinesDrawn(count) ==
    [j \in 1 .. (IF count < 0 THEN 0 ELSE count \div 2) |->
        <<ElementAt(2 * (j - 1)), ElementAt(2 * (j - 1) + 1)>>]

----------------------------------------------------------------------------
(* The line geometry shader (shaders.h): the color of an interval *)

Abs(a) == IF a < 0 THEN -a ELSE a

\* The color 1.0.  A color, and the shader's x, is held in units of 1/TWOPI,
\* so that d / PI, which is 2 * d / TWOPI, is the whole number 2 * d.
ColorOne == TWOPI

\* Classify without the mod: the angle difference is not wrapped.
ClassifyNoMod(phi1, phi2) ==
    LET x == 2 * Abs(phi2 - phi1)
    IN  IF x < ColorOne THEN x ELSE 2 * ColorOne - x

\* Classify without the fold: color = x.
ClassifyNoFold(phi1, phi2) == (2 * Abs(phi2 - phi1)) % (2 * ColorOne)

\* float x = mod(abs(phi2 - phi1) / PI, 2.0); color = x < 1 ? x : 2 - x;
Classify(phi1, phi2) ==
    LET x == (2 * Abs(phi2 - phi1)) % (2 * ColorOne)
    IN  IF x < ColorOne THEN x ELSE 2 * ColorOne - x

\* The shader's own int indices[]: the same 120 pairs as main.cpp's table.
ShaderIndices == indices

\* The uniform noteAngles[indices[2 * g + e]] for primitive g, e in {0, 1}.
ShaderAngle(g, e) == noteAnglesArr[ShaderIndices[2 * g + e + 1] + 1]

----------------------------------------------------------------------------
(* The MIDI callbacks: one producer per open port *)

\* try_enqueue on port p up to its test for room: it reads the tail and the
\* front, and returns false at once when the block is full.
TryEnqueueTest(p, msg) ==
    IF QueueFull(tail, front)
    THEN UNCHANGED <<ppc, ptail, pmsg>>
    ELSE /\ ppc' = [ppc EXCEPT ![p] = "write"]
         /\ ptail' = [ptail EXCEPT ![p] = tail]
         /\ pmsg' = [pmsg EXCEPT ![p] = msg]

\* The rest of try_enqueue on port p: the element is constructed in the slot
\* at the tail index read before, and that index plus one is stored as the
\* tail; try_enqueue returns true and the callback's locals are gone.
TryEnqueueStore(p) ==
    /\ ppc[p] = "write"
    /\ slots' = [slots EXCEPT ![ptail[p]] = pmsg[p]]
    /\ live' = [live EXCEPT ![ptail[p]] = TRUE]
    /\ tail' = NextSlot(ptail[p])
    /\ ppc' = [ppc EXCEPT ![p] = "idle"]
    /\ ptail' = [ptail EXCEPT ![p] = 0]
    /\ pmsg' = [pmsg EXCEPT ![p] = EmptyMessage]

\* my_callback on port p, up to try_enqueue's test for room: the port receives
\* a message, and when the block is full the message is gone.
CallbackBegin(p, bytesSet, limit) ==
    /\ ppc[p] = "idle"
    /\ SentUpTo(NumPorts) < limit
    /\ \E b \in bytesSet :
          LET msg == Message(b[1], b[2], b[3], p, nsent[p] + 1)
          IN  /\ TryEnqueueTest(p, msg)
              /\ dropped' = IF QueueFull(tail, front)
                            THEN dropped \cup {MsgId(msg)} ELSE dropped
    /\ nsent' = [nsent EXCEPT ![p] = @ + 1]
    /\ UNCHANGED <<noteAngles, m, tuning, slots, live, front, tail, cpc, client,
                   resolverCalls, color, noteAnglesArr, elemCount, pointCount,
                   before, accepted, delivered>>

\* The rest of my_callback on port p.
CallbackCommit(p) ==
    /\ TryEnqueueStore(p)
    /\ accepted' = accepted \cup {MsgId(pmsg[p])}
    /\ UNCHANGED <<noteAngles, m, tuning, front, nsent, cpc, client,
                   resolverCalls, color, noteAnglesArr, elemCount, pointCount,
                   before, dropped, delivered>>

----------------------------------------------------------------------------
(* The render loop: the single consumer *)

\* What try_dequeue's std::move(*element) can yield for slot i.  A slot inside
\* front..tail holds no live element only after two producers have raced; the
\* read is then undefined: the bytes last stored there, or none.
ElementRead(i) == IF live[i] THEN {slots[i]} ELSE {slots[i], EmptyMessage}

\* One turn of updateNoteAngles' loop: try_dequeue returns true with msg moved
\* out of the front slot, and the loop body handles msg.
LoopTurn(msg) ==
    /\ m' = msg
    /\ noteAngles' = ProcessMessage(noteAngles, msg, tuning)
    /\ live' = [live EXCEPT ![front] = FALSE]
    /\ front' = NextSlot(front)

\* One turn of the loop, in the render loop's frame.
Dequeue ==
    /\ cpc = "update"
    /\ ~QueueEmpty(tail, front)
    /\ \E msg \in ElementRead(front) :
          /\ LoopTurn(msg)
          /\ resolverCalls' = resolverCalls + ResolverCallCount(noteAngles, msg)
          /\ delivered' = Append(delivered, MsgId(msg))
    /\ before' = noteAngles
    /\ UNCHANGED <<tuning, slots, tail, ppc, ptail, pmsg, nsent, cpc, client,
                   color, noteAnglesArr, elemCount, pointCount, accepted, dropped>>

\* The other outcome of reading a slot that holds no live element: the
\* process dies.
DequeueCrash ==
    /\ cpc = "update"
    /\ ~QueueEmpty(tail, front)
    /\ ~live[front]
    /\ cpc' = "crashed"
    /\ UNCHANGED <<noteAngles, m, tuning, slots, live, front, tail, ppc, ptail,
                   pmsg, nsent, client, resolverCalls, color, noteAnglesArr,
                   elemCount, pointCount, before, accepted, dropped, delivered>>

\* The end of a frame: try_dequeue returns false, updateNoteAngles returns, and
\* draw runs on a copy of the map: the assertion, the copy into noteAnglesArr,
\* and the draw calls.  Nothing here is shared with the callbacks.
Draw ==
    /\ cpc = "update"
    /\ QueueEmpty(tail, front)
    /\ IF Size(noteAngles) <= maxNotes
       THEN /\ noteAnglesArr' = FillAnglesArr(noteAngles)
            /\ elemCount' = ElementCount(noteAngles)
            /\ pointCount' = Size(noteAngles)
            /\ cpc' = "swap"
       ELSE /\ cpc' = "aborted"
            /\ UNCHANGED <<noteAnglesArr, elemCount, pointCount>>
    /\ color' = <<>>
    /\ UNCHANGED <<noteAngles, m, tuning, slots, live, front, tail, ppc, ptail,
                   pmsg, nsent, client, resolverCalls, before, accepted, dropped,
                   delivered>>

\* glfwSwapBuffers and glfwPollEvents: the frame is shown, the loop goes round.
SwapBuffers ==
    /\ cpc = "swap"
    /\ cpc' = "update"
    /\ UNCHANGED <<noteAngles, m, tuning, slots, live, front, tail, ppc, ptail,
                   pmsg, nsent, client, resolverCalls, color, noteAnglesArr,
                   elemCount, pointCount, before, accepted, dropped, delivered>>

\* The line geometry shader's main for the next line of the drawn frame
\* (gl_PrimitiveIDIn is the number of lines shaded before): it emits the
\* line's color.
LineGeometryShader ==
    /\ cpc = "swap"
    /\ Len(color) < Len(LinesDrawn(elemCount))
    /\ color' = Append(color, Classify(ShaderAngle(Len(color), 0),
                                       ShaderAngle(Len(color), 1)))
    /\ UNCHANGED <<noteAngles, m, tuning, slots, live, front, tail, ppc, ptail,
                   pmsg, nsent, cpc, client, resolverCalls, noteAnglesArr,
                   elemCount, pointCount, before, accepted, dropped, delivered>>

\* The MTS master changes the tuning table the client reads; the program
\* takes no step and sees the table only through MTS_NoteToFrequency.
Retune ==
    /\ tuning' \in Tunings \ {tuning}
    /\ UNCHANGED <<noteAngles, m, slots, live, front, tail, ppc, ptail, pmsg,
                   nsent, cpc, client, resolverCalls, color, noteAnglesArr,
                   elemCount, pointCount, before, accepted, dropped, delivered>>

\* main from setupMIDI's return to the first test of the render loop:
\* MTS_RegisterClient, the empty map, and glfwWindowShouldClose's answer.
RegisterClient ==
    /\ cpc = "setup"
    /\ client' = "registered"
    /\ noteAngles' = <<>>
    /\ cpc' \in {"update", "exit"}
    /\ UNCHANGED <<m, tuning, slots, live, front, tail, ppc, ptail, pmsg, nsent,
                   resolverCalls, color, noteAnglesArr, elemCount, pointCount,
                   before, accepted, dropped, delivered>>

\* glfwSwapBuffers and glfwPollEvents, after which glfwWindowShouldClose is
\* true: the render loop ends.
CloseWindow ==
    /\ cpc = "swap"
    /\ cpc' = "exit"
    /\ UNCHANGED <<noteAngles, m, tuning, slots, live, front, tail, ppc, ptail,
                   pmsg, nsent, client, resolverCalls, color, noteAnglesArr,
                   elemCount, pointCount, before, accepted, dropped, delivered>>

\* main after the render loop: MTS_DeregisterClient, and the rest up to return.
DeregisterClient ==
    /\ cpc = "exit"
    /\ client' = "deregistered"
    /\ cpc' = "done"
    /\ UNCHANGED <<noteAngles, m, tuning, slots, live, front, tail, ppc, ptail,
                   pmsg, nsent, resolverCalls, color, noteAnglesArr, elemCount,
                   pointCount, before, accepted, dropped, delivered>>

----------------------------------------------------------------------------
(* The whole pipeline, from main's start of the render loop *)

Init ==
    /\ noteAngles = <<>>
    /\ m = EmptyMessage
    /\ tuning = "12tet"
    /\ slots = [i \in Slots |-> EmptyMessage]
    /\ live = [i \in Slots |-> FALSE]
    /\ front = 0
    /\ tail = 0
    /\ ppc = [p \in Ports |-> "idle"]
    /\ ptail = [p \in Ports |-> 0]
    /\ pmsg = [p \in Ports |-> EmptyMessage]
    /\ nsent = [p \in Ports |-> 0]
    /\ cpc = "update"
    /\ client = "registered"
    /\ resolverCalls = 0
    /\ color = <<>>
    /\ noteAnglesArr = [i \in 1 .. maxNotes |-> 0]
    /\ elemCount = 0
    /\ pointCount = 0
    /\ before = <<>>
    /\ accepted = {}
    /\ dropped = {}
    /\ delivered = <<>>

Next ==
    \/ \E p \in Ports : CallbackBegin(p, PipelineBytes(p, nsent[p]), MaxEvents)
    \/ \E p \in Ports : CallbackCommit(p)
    \/ Dequeue
    \/ DequeueCrash
    \/ Draw
    \/ SwapBuffers

Spec == Init /\ [][Next]_vars

----------------------------------------------------------------------------
(* The note set at any size: the render loop with one open port, started
   with a map that earlier frames have filled *)

\* The map after k notes, the i-th being base + step * i, went on under 12-TET.
FilledMap(k, base, step) ==
    [n \in { base + step * i : i \in 0 .. (k - 1) } |->
        NoteAngle(MTS_NoteToFrequency("12tet", n, 0))]

InitNotes ==
    /\ \/ \E k \in 0 .. maxNotes :
             \/ noteAngles = FilledMap(k, 0, 1)
             \/ noteAngles = FilledMap(k, 2, 2)
       \/ \E k \in 1 .. 2 : noteAngles = FilledMap(k, 60, 4)
    /\ m = EmptyMessage
    /\ tuning \in Tunings
    /\ slots = [i \in Slots |-> EmptyMessage]
    /\ live = [i \in Slots |-> FALSE]
    /\ front = 0
    /\ tail = 0
    /\ ppc = [p \in Ports |-> "idle"]
    /\ ptail = [p \in Ports |-> 0]
    /\ pmsg = [p \in Ports |-> EmptyMessage]
    /\ nsent = [p \in Ports |-> 0]
    /\ cpc = "update"
    /\ client = "registered"
    /\ resolverCalls = 0
    /\ color = <<>>
    /\ noteAnglesArr = [i \in 1 .. maxNotes |-> 0]
    /\ elemCount = 0
    /\ pointCount = 0
    /\ before = noteAngles
    /\ accepted = {}
    /\ dropped = {}
    /\ delivered = <<>>

NextNotes ==
    \/ CallbackBegin(1, NotesBytes, MaxNoteEvents)
    \/ CallbackCommit(1)
    \/ Dequeue
    \/ Draw
    \/ SwapBuffers

SpecNotes == InitNotes /\ [][NextNotes]_vars

----------------------------------------------------------------------------
(* Frames under a changing tuning: the render loop with one open port and a
   map that earlier frames have filled, while the MTS master retunes *)

\* What the port receives: notes 2 and 3 going on and off on several channels,
\* and messages of other kinds whose data bytes are those note numbers
\* (160: polyphonic key pressure, 224: pitch bend, 242: song position).
FrameBytes ==
    { <<NOTE_ON, 3, 100>>, <<NOTE_ON + 9, 2, 1>>, <<NOTE_ON + 1, 2, 0>>,
      <<NOTE_OFF + 3, 2, 64>>, <<160, 2, 50>>, <<CONTROL_CHANGE + 2, 3, 0>>,
      <<224 + 1, 2, 3>>, <<242, 3, 2>> }

InitFrames ==
    /\ \/ \E k \in {0, 3, 4, maxNotes} : noteAngles = FilledMap(k, 0, 1)
       \/ \E k \in {1, maxNotes - 1, maxNotes} : noteAngles = FilledMap(k, 2, 2)
    /\ m = EmptyMessage
    /\ tuning \in Tunings
    /\ slots = [i \in Slots |-> EmptyMessage]
    /\ live = [i \in Slots |-> FALSE]
    /\ front = 0
    /\ tail = 0
    /\ ppc = [p \in Ports |-> "idle"]
    /\ ptail = [p \in Ports |-> 0]
    /\ pmsg = [p \in Ports |-> EmptyMessage]
    /\ nsent = [p \in Ports |-> 0]
    /\ cpc = "update"
    /\ client = "registered"
    /\ resolverCalls = 0
    /\ color = <<>>
    /\ noteAnglesArr = [i \in 1 .. maxNotes |-> 0]
    /\ elemCount = 0
    /\ pointCount = 0
    /\ before = noteAngles
    /\ accepted = {}
    /\ dropped = {}
    /\ delivered = <<>>

NextFrames ==
    \/ CallbackBegin(1, FrameBytes, MaxFrameEvents)
    \/ CallbackCommit(1)
    \/ Dequeue
    \/ Draw
    \/ SwapBuffers
    \/ Retune

SpecFrames == InitFrames /\ [][NextFrames]_vars

----------------------------------------------------------------------------
(* main from setupMIDI's return to its own return, with one open port: the
   port's callback runs before the MTS client is registered, during the
   render loop and after it; also entered in a later frame, with a full map *)

\* What the port receives: notes 69 (440 Hz in both tunings) and 81 (880 Hz
\* in 12-TET) going on and off, and notes 57 (220 Hz in 12-TET) and 93 (1760
\* Hz in 12-TET, 880 Hz in 24-TET) going on.
MainBytes ==
    { <<NOTE_ON, 81, 100>>, <<NOTE_ON + 2, 69, 64>>, <<NOTE_ON, 81, 0>>,
      <<NOTE_OFF, 69, 0>>, <<NOTE_ON, 57, 1>>, <<NOTE_ON, 93, 127>> }

InitMain ==
    /\ \/ /\ cpc = "setup"
          /\ client = "none"
          /\ noteAngles = <<>>
       \/ /\ cpc = "update"
          /\ client = "registered"
          /\ noteAngles = FilledMap(maxNotes, 70, 1)
    /\ m = EmptyMessage
    /\ tuning \in Tunings
    /\ slots = [i \in Slots |-> EmptyMessage]
    /\ live = [i \in Slots |-> FALSE]
    /\ front = 0
    /\ tail = 0
    /\ ppc = [p \in Ports |-> "idle"]
    /\ ptail = [p \in Ports |-> 0]
    /\ pmsg = [p \in Ports |-> EmptyMessage]
    /\ nsent = [p \in Ports |-> 0]
    /\ resolverCalls = 0
    /\ color = <<>>
    /\ noteAnglesArr = [i \in 1 .. maxNotes |-> 0]
    /\ elemCount = 0
    /\ pointCount = 0
    /\ before = noteAngles
    /\ accepted = {}
    /\ dropped = {}
    /\ delivered = <<>>

NextMain ==
    \/ CallbackBegin(1, MainBytes, MaxMainEvents)
    \/ CallbackCommit(1)
    \/ RegisterClient
    \/ Dequeue
    \/ Draw
    \/ SwapBuffers
    \/ CloseWindow
    \/ DeregisterClient

SpecMain == InitMain /\ [][NextMain]_vars

----------------------------------------------------------------------------
(* The interval colors: frames of three active notes with any angles *)

\* Angles a tuning can give a note: whole turns plus nothing, a quarter, just
\* under and just over a half, three quarters, and just under a whole turn.
AngleSamples ==
    { o * TWOPI + f : o \in (0 - MaxTurns) .. MaxTurns,
                      f \in {0, 1570, 3141, 3142, 4712, 6282} }

InitShader ==
    /\ \E a, b, c \in AngleSamples :
          noteAngles = [n \in {60, 64, 72} |->
                           IF n = 60 THEN a ELSE IF n = 64 THEN b ELSE c]
    /\ m = EmptyMessage
    /\ tuning = "12tet"
    /\ slots = [i \in Slots |-> EmptyMessage]
    /\ live = [i \in Slots |-> FALSE]
    /\ front = 0
    /\ tail = 0
    /\ ppc = [p \in Ports |-> "idle"]
    /\ ptail = [p \in Ports |-> 0]
    /\ pmsg = [p \in Ports |-> EmptyMessage]
    /\ nsent = [p \in Ports |-> 0]
    /\ cpc = "update"
    /\ client = "registered"
    /\ resolverCalls = 0
    /\ color = <<>>
    /\ noteAnglesArr = [i \in 1 .. maxNotes |-> 0]
    /\ elemCount = 0
    /\ pointCount = 0
    /\ before = noteAngles
    /\ accepted = {}
    /\ dropped = {}
    /\ delivered = <<>>

NextShader ==
    \/ Draw
    \/ LineGeometryShader
    \/ SwapBuffers

SpecShader == InitShader /\ [][NextShader]_vars

----------------------------------------------------------------------------
(* A port that never stops sending: the render loop with one open port whose
   callback may run at any time, any number of times.  No history is kept
   here, so that the run can go on for ever. *)

\* What the port receives: one key pressed and released.
StreamBytes == { <<NOTE_ON, 60, 100>>, <<NOTE_OFF, 60, 0>> }

\* my_callback on port p, up to try_enqueue's test for room.
StreamBegin(p) ==
    /\ ppc[p] = "idle"
    /\ \E b \in StreamBytes : TryEnqueueTest(p, Message(b[1], b[2], b[3], p, 0))
    /\ UNCHANGED <<noteAngles, m, tuning, slots, live, front, tail, nsent, cpc,
                   client, resolverCalls, color, noteAnglesArr, elemCount,
                   pointCount, before, accepted, dropped, delivered>>

\* The rest of my_callback on port p.
StreamCommit(p) ==
    /\ TryEnqueueStore(p)
    /\ UNCHANGED <<noteAngles, m, tuning, front, nsent, cpc, client,
                   resolverCalls, color, noteAnglesArr, elemCount, pointCount,
                   before, accepted, dropped, delivered>>

\* One turn of updateNoteAngles' loop.
StreamDequeue ==
    /\ cpc = "update"
    /\ ~QueueEmpty(tail, front)
    /\ \E msg \in ElementRead(front) : LoopTurn(msg)
    /\ UNCHANGED <<tuning, slots, tail, ppc, ptail, pmsg, nsent, cpc, client,
                   resolverCalls, color, noteAnglesArr, elemCount, pointCount,
                   before, accepted, dropped, delivered>>

\* A step of the render loop's thread.
RenderLoopStep == StreamDequeue \/ Draw \/ SwapBuffers

NextStream ==
    \/ StreamBegin(1)
    \/ StreamCommit(1)
    \/ StreamDequeue
    \/ Draw
    \/ SwapBuffers

\* The render loop's thread never waits (try_dequeue does not block) and is
\* always scheduled again; nothing is assumed of the port.
SpecStream == Init /\ [][NextStream]_vars /\ WF_vars(RenderLoopStep)

----------------------------------------------------------------------------
(* Properties *)

\* The step is a turn of updateNoteAngles' loop that handled a message.
Handled == delivered' # delivered

\* msg is a NOTE_ON with a velocity above zero.
IsNoteOnWithVelocity(msg) ==
    /\ get_message_type(msg) = NOTE_ON
    /\ msg.bytes[3] > 0

\* C1: after every handled message the active note set holds between 0 and
\* 16 (maxNotes) entries, and draw's assertion size <= maxNotes never fails.
C1_SizeWithinMaxNotes ==
    /\ Size(noteAngles) >= 0
    /\ Size(noteAngles) <= 16
    /\ cpc # "aborted"

\* C1's case: a frame was drawn with a full set, right after a NOTE_ON with
\* velocity for a note that is not in the set was handled.
C1_Witness ==
    /\ cpc = "swap"
    /\ Len(delivered) = 1
    /\ IsNoteOnWithVelocity(m)
    /\ m.bytes[2] \notin DOMAIN noteAngles
    /\ Size(noteAngles) = 16
    /\ pointCount = 16

\* C2: when the active note set holds 16 entries, handling a NOTE_ON with
\* velocity > 0 leaves the set as it was, whatever the note: no entry is added,
\* removed or given another angle.
C2_FullSetIgnoresNoteOn ==
    [][ (Handled /\ Size(noteAngles) = 16 /\ IsNoteOnWithVelocity(m'))
            => noteAngles' = noteAngles ]_vars

\* C2's case: a NOTE_ON with velocity for a note outside the set has been
\* handled while the set held 16 entries.
C2_Witness ==
    /\ Len(delivered) = 1
    /\ IsNoteOnWithVelocity(m)
    /\ Size(before) = 16
    /\ m.bytes[2] \notin DOMAIN before

\* C6: from every state of the set, handling NOTE_ON(n, velocity 0) gives the
\* set that handling NOTE_OFF(n) gives from the same state: n is removed if it
\* is there and nothing else changes.
C6_VelocityZeroIsNoteOff ==
    [][ (Handled /\ get_message_type(m') = NOTE_ON /\ m'.bytes[3] = 0)
            => /\ noteAngles' =
                    ProcessMessage(noteAngles,
                                   Message(NOTE_OFF, m'.bytes[2], 0, 1, 1), tuning)
               /\ DOMAIN noteAngles' = (DOMAIN noteAngles) \ {m'.bytes[2]}
               /\ \A k \in DOMAIN noteAngles' : noteAngles'[k] = noteAngles[k]
      ]_vars

\* C6's case: note 60 alone was active, as after NOTE_ON(60, 100) from the
\* empty set, and NOTE_ON(60, 0) has been handled.
C6_Witness ==
    /\ Len(delivered) = 1
    /\ DOMAIN before = {60}
    /\ m.bytes = <<NOTE_ON, 60, 0>>
    /\ noteAngles = <<>>

\* C7: handling NOTE_OFF(n) when n is not in the active note set leaves the
\* set unchanged (same members, same angles) and the render loop running.
C7_NoteOffOfInactiveNote ==
    [][ (Handled /\ get_message_type(m') = NOTE_OFF
                 /\ m'.bytes[2] \notin DOMAIN noteAngles)
            => (noteAngles' = noteAngles /\ cpc' = "update") ]_vars

\* C7's case: a NOTE_OFF for a note below some active notes, and not active
\* itself, has been handled with the set full.
C7_Witness ==
    /\ Len(delivered) = 1
    /\ get_message_type(m) = NOTE_OFF
    /\ m.bytes[2] \notin DOMAIN before
    /\ Size(before) = 16
    /\ \E k \in DOMAIN before : k > m.bytes[2]

\* The number of active notes with a smaller note number than n.
RankOf(n) == Cardinality({ j \in DOMAIN noteAngles : j < n })

\* C8: in every drawn frame, with k active notes, slot i of the angle array
\* (i < k) holds the angle of the active note that has exactly i active notes
\* below it, and the count used for drawing the points is k.
C8_DenseByRank ==
    cpc = "swap" =>
        /\ pointCount = Size(noteAngles)
        /\ \A n \in DOMAIN noteAngles :
              /\ RankOf(n) < Size(noteAngles)
              /\ noteAnglesArr[RankOf(n) + 1] = noteAngles[n]

\* C8's case: a frame drawn after note 3 went on between the active notes 2
\* and 4, which moved every note above it up by one slot.
C8_Witness ==
    /\ cpc = "swap"
    /\ Len(delivered) = 1
    /\ IsNoteOnWithVelocity(m)
    /\ m.bytes[2] = 3
    /\ 3 \notin DOMAIN before
    /\ {2, 3, 4, 30} \subseteq DOMAIN noteAngles
    /\ Size(noteAngles) = 16

\* The slot pairs (i, j) with 0 <= i < j < k.
PairsBelow(k) == { <<i, j>> \in (0 .. (k - 1)) \X (0 .. (k - 1)) : i < j }

\* C9: in every drawn frame, with k active notes (0..16), exactly k*(k-1)/2
\* lines are drawn, they are exactly the slot pairs (i, j) with i < j < k, in
\* the table's order (ascending j, then ascending i), and no element is read
\* past the table of 120 pairs.
C9_EdgesAreThePairsBelowK ==
    cpc = "swap" =>
        LET k == Size(noteAngles)
            lines == LinesDrawn(elemCount)
        IN  /\ elemCount >= 0
            /\ elemCount <= 2 * 120
            /\ 2 * Len(lines) = k * (k - 1)
            /\ { lines[x] : x \in 1 .. Len(lines) } = PairsBelow(k)
            /\ \A x \in 1 .. (Len(lines) - 1) :
                  \/ lines[x][2] < lines[x + 1][2]
                  \/ lines[x][2] = lines[x + 1][2] /\ lines[x][1] < lines[x + 1][1]

\* C9's case: a frame drawn with no active note left, after the last one went
\* off: size - 1 wraps in size_t and the product is 0.
C9_Witness ==
    /\ cpc = "swap"
    /\ Len(delivered) = 1
    /\ Size(before) = 1
    /\ Size(noteAngles) = 0
    /\ elemCount = 0

\* The ids of the live elements from the front to the tail, in order.
BufferedIds ==
    LET idx == Buffered(front, tail)
    IN  [i \in 1 .. Len(idx) |->
            IF live[idx[i]] THEN MsgId(slots[idx[i]]) ELSE <<0, 0>>]

InSeq(x, seq) == \E i \in 1 .. Len(seq) : seq[i] = x

\* C3: with two or more ports enqueuing into the one queue, no message whose
\* try_enqueue returned true is lost or overwritten: it has been returned to
\* the render loop, or it is still buffered and will be.
C3_AcceptedNeverLost ==
    \A id \in accepted : InSeq(id, delivered) \/ InSeq(id, BufferedIds)

\* C4: no message is returned by try_dequeue twice, however the callbacks'
\* enqueues interleave with the render loop's dequeues.
C4_ReturnedAtMostOnce ==
    \A i, j \in 1 .. Len(delivered) :
        (i # j /\ delivered[i] # <<0, 0>>) => delivered[i] # delivered[j]

\* C5: a callback that finds the queue at capacity returns at once: the step
\* leaves the buffered elements, their order, the front and the tail as they
\* were and the callback idle; and the dropped message is never retried: it
\* is never accepted, buffered, pending in a callback or returned later.
C5_FullQueueDrops ==
    [][ /\ ( (nsent' # nsent /\ Len(Buffered(front, tail)) = QueueSlots - 1)
              => /\ <<slots, live, front, tail>>' = <<slots, live, front, tail>>
                 /\ ppc' = ppc
                 /\ pmsg' = pmsg
                 /\ accepted' = accepted
                 /\ cpc' = cpc
                 /\ dropped' # dropped )
        /\ \A id \in dropped' :
              /\ id \notin accepted'
              /\ ~InSeq(id, delivered')
              /\ \A i \in Slots : MsgId(slots'[i]) # id
              /\ \A p \in Ports : MsgId(pmsg'[p]) # id ]_vars

\* C5's case: a message has been dropped at a full queue, whose elements are
\* all still buffered, and a later message of the same port got in.
C5_Witness ==
    \E p \in Ports :
        /\ <<p, 1>> \in dropped
        /\ <<p, 2>> \in accepted

\* C10: the messages of each port are returned, and handled, in the order the
\* port's callback enqueued them, also across frames and between other ports'
\* messages.
C10_FifoPerPort ==
    \A i, j \in 1 .. Len(delivered) :
        (i < j /\ delivered[i][1] = delivered[j][1] /\ delivered[i][1] # 0)
            => delivered[i][2] <= delivered[j][2]

\* C11: the angle of an active note is the one resolved from the tuning in
\* force when its last accepted NOTE_ON was handled: a step that changes the
\* tuning changes no entry, only handling a message changes the set, and an
\* accepted NOTE_ON stores the angle of its own note under the tuning of that
\* moment and leaves the angle of every other entry as it was.
C11_AngleFromTuningAtInsertion ==
    [][ /\ (tuning' # tuning => noteAngles' = noteAngles)
        /\ (~Handled => noteAngles' = noteAngles)
        /\ ( (Handled /\ IsNoteOnWithVelocity(m') /\ Size(noteAngles) < 16)
              => /\ m'.bytes[2] \in DOMAIN noteAngles'
                 /\ noteAngles'[m'.bytes[2]] =
                        NoteAngle(MTS_NoteToFrequency(tuning, m'.bytes[2], 0))
                 /\ \A k \in (DOMAIN noteAngles) \ {m'.bytes[2]} :
                        /\ k \in DOMAIN noteAngles'
                        /\ noteAngles'[k] = noteAngles[k] ) ]_vars

\* C11's case: note 3 went on from the empty set, the tuning changed, note 3
\* went on again, and its entry now holds another angle than after the first
\* NOTE_ON.
C11_Witness ==
    /\ Len(delivered) = 2
    /\ IsNoteOnWithVelocity(m)
    /\ m.bytes[2] = 3
    /\ DOMAIN before = {3}
    /\ DOMAIN noteAngles = {3}
    /\ before[3] # noteAngles[3]
    /\ noteAngles[3] = NoteAngle(MTS_NoteToFrequency(tuning, 3, 0))

\* C12: MTS_NoteToFrequency is called only while the MTS client is registered,
\* also when the port enqueues before MTS_RegisterClient or after the render
\* loop has ended; and handling a message calls it exactly once if the
\* message is a NOTE_ON with velocity > 0 that finds fewer than 16 entries,
\* and not at all otherwise (rejected NOTE_ON, velocity 0, NOTE_OFF).
C12_ResolverWhileRegisteredOncePerNoteOn ==
    [][ /\ (resolverCalls' # resolverCalls
              => (client = "registered" /\ client' = "registered" /\ Handled))
        /\ (Handled
              => resolverCalls' - resolverCalls =
                    (IF IsNoteOnWithVelocity(m') /\ Size(noteAngles) < 16
                     THEN 1 ELSE 0)) ]_vars

\* C12's case: main has deregistered the client and returned, after a run in
\* which one message was handled and resolved once; a NOTE_ON that came in
\* after the last drain is still in the queue, never resolved.
C12_Witness ==
    /\ cpc = "done"
    /\ client = "deregistered"
    /\ Len(delivered) = 1
    /\ resolverCalls = 1
    /\ ~QueueEmpty(tail, front)
    /\ IsNoteOnWithVelocity(slots[front])

\* C13: handling a dequeued message whose kind is neither NOTE_ON nor NOTE_OFF
\* takes it out of the queue (the front moves on by one, the tail stays) and
\* leaves the active note set as it was, also when its data bytes are the
\* numbers of active notes.
C13_OtherKindsIgnored ==
    [][ (Handled /\ get_message_type(m') \notin {NOTE_ON, NOTE_OFF})
            => /\ noteAngles' = noteAngles
               /\ front' = NextSlot(front)
               /\ tail' = tail
               /\ Len(Buffered(front', tail')) = Len(Buffered(front, tail)) - 1
      ]_vars

\* C13's case: a pitch bend on channel 1 whose first data byte is the number
\* of an active note has been handled with the set full.
C13_Witness ==
    /\ Len(delivered) >= 1
    /\ Len(m.bytes) = 3
    /\ m.bytes[1] = 224 + 1
    /\ m.bytes[2] \in DOMAIN before
    /\ Size(before) = 16
    /\ noteAngles = before

\* C14: the color of every shaded line is periodic in the octave: it is the
\* color of the same pair with the first angle a whole turn (2 pi) higher;
\* and when the two angles differ by a whole number of turns, also by none,
\* the color is 0, that of the unison.
C14_ClassifierPeriodic ==
    \A g \in 1 .. Len(color) :
        LET phi1 == ShaderAngle(g - 1, 0)
            phi2 == ShaderAngle(g - 1, 1)
        IN  /\ color[g] = Classify(phi1 + TWOPI, phi2)
            /\ ((phi2 - phi1) % TWOPI = 0 => color[g] = 0)
            /\ Classify(phi1, phi1) = 0

\* C14's case: the first line of a frame joins two notes exactly one octave
\* apart, not at the same angle, and has been shaded with color 0.
C14_Witness ==
    /\ Len(color) >= 1
    /\ noteAnglesArr[2] - noteAnglesArr[1] = TWOPI
    /\ color[1] = 0

\* C15: the color of every shaded line is symmetric and folded into the unit
\* range: it is the color of the same pair taken the other way round, it lies
\* in [0, 1], and with x = (|phi2 - phi1| / pi) mod 2 it is x when x < 1 and
\* 2 - x otherwise.
C15_ClassifierSymmetricFolded ==
    \A g \in 1 .. Len(color) :
        LET phi1 == ShaderAngle(g - 1, 0)
            phi2 == ShaderAngle(g - 1, 1)
            x == (2 * (IF phi2 >= phi1 THEN phi2 - phi1 ELSE phi1 - phi2))
                    % (2 * TWOPI)
        IN  /\ color[g] = Classify(phi2, phi1)
            /\ color[g] >= 0
            /\ color[g] <= ColorOne
            /\ (x < TWOPI => color[g] = x)
            /\ (x >= TWOPI => color[g] = 2 * TWOPI - x)

\* C15's case: the first line of a frame joins angles 0 and three quarters of
\* a turn, x is 1.5 and the color is the folded 0.5; the second line's first
\* angle is above its second.
C15_Witness ==
    /\ Len(color) >= 2
    /\ noteAnglesArr[1] = 0
    /\ noteAnglesArr[2] = 4712
    /\ color[1] = 2 * TWOPI - 2 * 4712
    /\ ShaderAngle(1, 0) > ShaderAngle(1, 1)

\* C16: an accepted NOTE_ON stores, for its note, 2 pi * log2(f / 440) with f
\* the frequency the tuning gives the note (to the milliradian the model
\* keeps), and stores it unreduced: 2 pi for 880 Hz, 0 for 440 Hz, a whole
\* turn or more from 880 Hz up and a negative angle below 440 Hz.
C16_AngleUnreduced ==
    [][ (Handled /\ IsNoteOnWithVelocity(m') /\ Size(noteAngles) < 16)
            => LET f == MTS_NoteToFrequency(tuning, m'.bytes[2], 0)
                   angle == noteAngles'[m'.bytes[2]]
               IN  /\ 1200 * angle <= TWOPI * (f - 6900)
                   /\ TWOPI * (f - 6900) < 1200 * (angle + 1)
                   /\ (f = 8100 => angle = TWOPI)
                   /\ (f = 6900 => angle = 0)
                   /\ (f >= 8100 => angle >= TWOPI)
                   /\ (f < 6900 => angle < 0) ]_vars

\* C16's case: note 81 has gone on under 12-TET, which gives it 880 Hz, and
\* its entry holds 2 pi.
C16_Witness ==
    /\ Len(delivered) >= 1
    /\ IsNoteOnWithVelocity(m)
    /\ m.bytes[2] = 81
    /\ tuning = "12tet"
    /\ MTS_NoteToFrequency(tuning, 81, 0) = 8100
    /\ 81 \notin DOMAIN before
    /\ 81 \in DOMAIN noteAngles
    /\ noteAngles[81] = TWOPI

\* C17: handling one message for note n changes at most the entry of n and
\* the size of the set by at most one, every other note keeping its membership
\* and its angle; no other step changes the set; and a note goes from absent
\* to active only in the step that handles a NOTE_ON with velocity > 0 for
\* that very note while the set holds fewer than 16 entries, so a NOTE_ON
\* rejected at 16 never brings its note in later, when others are released.
C17_OneEntryPerEvent ==
    [][ /\ \A k \in (DOMAIN noteAngles') \ (DOMAIN noteAngles) :
              /\ Handled
              /\ IsNoteOnWithVelocity(m')
              /\ m'.bytes[2] = k
              /\ Size(noteAngles) < 16
        /\ (Handled =>
              /\ \A k \in ((DOMAIN noteAngles) \cup (DOMAIN noteAngles'))
                                \ {m'.bytes[2]} :
                    /\ k \in DOMAIN noteAngles
                    /\ k \in DOMAIN noteAngles'
                    /\ noteAngles'[k] = noteAngles[k]
              /\ Size(noteAngles') - Size(noteAngles) \in {-1, 0, 1})
        /\ (~Handled => noteAngles' = noteAngles) ]_vars

\* C17's case: NOTE_ON(3) came first and found the set full, without note 3;
\* then NOTE_OFF(2) released note 2: the set holds 15 notes and note 3 is not
\* among them.  (The two slots still show what was dequeued from them.)
C17_Witness ==
    /\ Len(delivered) = 2
    /\ slots[0].bytes = <<NOTE_ON, 3, 100>>
    /\ slots[1].bytes = <<NOTE_OFF + 3, 2, 64>>
    /\ front = 2
    /\ resolverCalls = 0
    /\ Size(before) = 16
    /\ Size(noteAngles) = 15
    /\ 3 \notin DOMAIN noteAngles
    /\ 2 \notin DOMAIN noteAngles

\* C18: handling a NOTE_ON with velocity > 0 for a note that is active leaves
\* the set with the same notes, one entry each (the size does not change);
\* with fewer than 16 entries the note's angle becomes the one the tuning of
\* that moment gives it, and with 16 entries it stays what it was, also when
\* the tuning has changed since the entry was stored.
C18_NoteOnOfActiveNote ==
    [][ (Handled /\ IsNoteOnWithVelocity(m')
                 /\ m'.bytes[2] \in DOMAIN noteAngles)
            => /\ DOMAIN noteAngles' = DOMAIN noteAngles
               /\ Size(noteAngles') = Size(noteAngles)
               /\ (Size(noteAngles) < 16
                     => noteAngles'[m'.bytes[2]] =
                           NoteAngle(MTS_NoteToFrequency(tuning, m'.bytes[2], 0)))
               /\ (Size(noteAngles) = 16
                     => noteAngles'[m'.bytes[2]] = noteAngles[m'.bytes[2]])
      ]_vars

\* C18's case: NOTE_ON(2) has been handled with 16 entries, note 2 among them
\* with an angle stored under the other tuning: the entry kept that angle.
C18_Witness ==
    /\ Len(delivered) >= 1
    /\ IsNoteOnWithVelocity(m)
    /\ m.bytes[2] = 2
    /\ Size(before) = 16
    /\ 2 \in DOMAIN before
    /\ noteAngles = before
    /\ noteAngles[2] # NoteAngle(MTS_NoteToFrequency(tuning, 2, 0))

\* C19: every drain of the queue by updateNoteAngles ends and the frame is
\* drawn, also while the port keeps enqueuing: whenever the render loop is in
\* its dequeue loop, it later gets to swap the drawn frame.
C19_DrainTerminates == (cpc = "update") ~> (cpc = "swap")

\* The bytes of a channel message put on channel 0.
OnChannelZero(b) ==
    IF Len(b) = 0 \/ b[1] >= SYSTEM_EXCLUSIVE THEN b
    ELSE <<b[1] - (b[1] % 16), b[2], b[3]>>

\* The message number k of port p, as port 1 would have received it on
\* channel 0.
FromOnePort(p, k) ==
    LET b == OnChannelZero(CHOOSE x \in PipelineBytes(p, k - 1) : TRUE)
    IN  Message(b[1], b[2], b[3], 1, k)

\* The set after the loop has handled, from angles on, the accepted messages
\* number k and up of port p, had they come from port 1 on channel 0.
RECURSIVE AfterPort(_, _, _)
AfterPort(angles, p, k) ==
    IF k > nsent[p] THEN angles
    ELSE AfterPort(IF <<p, k>> \in accepted
                   THEN ProcessMessage(angles, FromOnePort(p, k), tuning)
                   ELSE angles,
                   p, k + 1)

\* The same for the ports p and up (the ports play different notes, so the
\* order among the ports makes no difference).
RECURSIVE AfterPorts(_, _)
AfterPorts(angles, p) ==
    IF p > NumPorts THEN angles
    ELSE AfterPorts(AfterPort(angles, p, 1), p + 1)

\* C20: the channel and the port of a message have no influence on the active
\* note set: once the callbacks have returned and the queue is drained, the
\* set and its angles are the ones the same accepted messages give when they
\* all come from one port on channel 0.
C20_ChannelAndPortWithoutInfluence ==
    ( /\ \A p \in Ports : ppc[p] = "idle"
      /\ QueueEmpty(tail, front)
      /\ cpc \in {"update", "swap"} )
        => noteAngles = AfterPorts(<<>>, 1)
====
